---- MODULE Spec2Model ----
(***************************************************************************)
(* Raw-data ingestion of the season tracker (ingest/load_raw.py and        *)
(* ingest/config.py): the DuckDB raw store (raw_teams, raw_matches,        *)
(* ingest_runs), the upstream API responses, and main() run statement by   *)
(* statement.  Invocations of main() follow one another (one process at a  *)
(* time holds the DuckDB file), each at a later instant of the wall clock.  *)
(*                                                                         *)
(* The Streamlit app (app.py): its sessions, the Refresh pipeline button   *)
(* and query_df (specification AppSpec); and the derived views the app     *)
(* reads, computed from the raw store (specification DeriveSpec).          *)
(*                                                                         *)
(* SQL NULL / Python None is modelled as an absent field of a record.      *)
(***************************************************************************)
EXTENDS Integers, Sequences, FiniteSets, TLC

\* ------------------------------------------------------------------ bounds

\* Invocations of main() in one behaviour.
MaxRuns == 2
\* The wall clock runs over the ticks 0..MaxClock.
MaxClock == 3

\* ------------------------------------------------------- program constants

DetailsCap == 5000
DefaultSeason == 2025
DefaultCompCode == "ELC"
ErrorStatusFloor == 400

NoRun == -1

\* Ticks of the wall clock in one second: datetime.now() is read to the tick, and
\* strftime("%Y%m%dT%H%M%SZ") keeps the whole seconds of it.
TicksPerSecond == 2

\* ----------------------------------------------------------------- strings

RECURSIVE LStrip(_)
LStrip(s) ==
    IF Len(s) > 0 /\ SubSeq(s, 1, 1) = " " THEN LStrip(SubSeq(s, 2, Len(s))) ELSE s

RECURSIVE RStrip(_)
RStrip(s) ==
    IF Len(s) > 0 /\ SubSeq(s, Len(s), Len(s)) = " "
    THEN RStrip(SubSeq(s, 1, Len(s) - 1)) ELSE s

\* str.strip()
Strip(s) == RStrip(LStrip(s))

\* s[:n]
Prefix(s, n) == IF Len(s) <= n THEN s ELSE SubSeq(s, 1, n)

RECURSIVE Repeat(_, _)
Repeat(s, n) ==
    IF n = 0 THEN ""
    ELSE IF n % 2 = 0 THEN LET h == Repeat(s, n \div 2) IN h \o h
    ELSE s \o Repeat(s, n - 1)

\* os.getenv(name, default)
GetEnv(env, name, default) == IF name \in DOMAIN env THEN env[name] ELSE default

\* dict.get(k): the value, or None (an absent column)
Opt(col, d, k) == IF k \in DOMAIN d THEN (col :> d[k]) ELSE <<>>

\* d.get(k, {}) or {}
Sub(d, k) == IF k \in DOMAIN d THEN d[k] ELSE <<>>

\* ------------------------------------------------------------ environment

\* Values of FOOTBALL_DATA_TOKEN in the environment; <<>> has it unset.
Environments ==
    { <<>>,
      [FOOTBALL_DATA_TOKEN |-> ""],
      [FOOTBALL_DATA_TOKEN |-> "  "],
      [FOOTBALL_DATA_TOKEN |-> " tok "] }

ConfigErrorText == "FOOTBALL_DATA_TOKEN is missing. Put it in your .env or environment."

\* load_settings() without the .strip()
LoadSettingsNoStrip(env) == GetEnv(env, "FOOTBALL_DATA_TOKEN", "") = ""

\* load_settings(): whether it raises the RuntimeError for a missing token.
LoadSettingsTokenMissing(env) ==
    LET token == Strip(GetEnv(env, "FOOTBALL_DATA_TOKEN", ""))
    IN  token = ""

\* ------------------------------------------------------------ upstream API

\* JSON team objects.
TeamA  == [id |-> 1, name |-> "Charlton Athletic", shortName |-> "Charlton",
           tla |-> "CHA", crest |-> "cha.png"]
\* the same team later: renamed, shortName no longer sent
TeamA2 == [id |-> 1, name |-> "Charlton", tla |-> "CHA", crest |-> "cha2.png"]
TeamB  == [id |-> 2, name |-> "Millwall", shortName |-> "Millwall",
           tla |-> "MIL", crest |-> "mil.png"]
\* a team object without "id"
TeamNoId == [name |-> "Nameless"]

\* JSON scalars that may be a number or a string carry their JSON type.
JInt(n) == [int |-> n]
JStr(s) == [str |-> s]

\* An ISO-8601 timestamp string: local time t at UTC offset off; "Z" is off 0.
Iso(t, off) == [t |-> t, off |-> off]
NotIso == [text |-> "tomorrow"]

MatchS == [id |-> 10, utcDate |-> Iso(5, 0), status |-> "SCHEDULED",
           matchday |-> JInt(1), stage |-> "REGULAR_SEASON",
           homeTeam |-> [id |-> 1, name |-> "Charlton Athletic"],
           awayTeam |-> [id |-> 2, name |-> "Millwall"],
           score |-> [fullTime |-> <<>>, halfTime |-> <<>>],
           lastUpdated |-> Iso(1, 0)]
\* the same match, played
MatchF == [id |-> 10, utcDate |-> Iso(6, 1), status |-> "FINISHED",
           matchday |-> JInt(1), stage |-> "REGULAR_SEASON",
           homeTeam |-> [id |-> 1, name |-> "Charlton"],
           awayTeam |-> [id |-> 2, name |-> "Millwall"],
           score |-> [winner |-> "HOME_TEAM",
                      fullTime |-> [home |-> 2, away |-> 1],
                      halfTime |-> [home |-> 1, away |-> 1]],
           lastUpdated |-> Iso(7, 0)]
\* a fixture not yet placed: no teams, no date, no score object
MatchT == [id |-> 11, status |-> "TIMED"]
\* a match whose matchday is not a number
MatchBadDay == [id |-> 12, status |-> "TIMED", matchday |-> JStr("x")]
\* a match whose utcDate is not an ISO timestamp
MatchBadDate == [id |-> 13, status |-> "TIMED", utcDate |-> NotIso]

\* An HTTP response: status, text (the body), and json (what resp.json() gives, when
\* the body is JSON).
Ok(json) == [status |-> 200, text |-> "{...}", json |-> json]

LongBody == Repeat("x", DetailsCap + 1)

\* What the upstream answers when it does not answer 200.
ErrorResponses ==
    { [status |-> 429, text |-> LongBody],
      [status |-> 304, text |-> ""] }

TeamsResponses ==
    { Ok([teams |-> <<TeamA, TeamB>>]),
      Ok([teams |-> <<TeamA2>>]),
      Ok([teams |-> <<TeamB, TeamNoId, TeamA>>]) } \cup ErrorResponses

MatchesResponses ==
    { Ok([matches |-> <<MatchS, MatchT>>]),
      Ok([matches |-> <<MatchS, MatchF>>]),
      Ok([matches |-> <<MatchF, MatchBadDay, MatchT>>]),
      Ok([matches |-> <<MatchT, MatchBadDate>>]),
      Ok([count |-> 0]) } \cup ErrorResponses

\* An exception: its class and str(e).
Exc(type, text) == [type |-> type, text |-> text]
NoExc == Exc("", "")

ApiErrorText(resp) == "API error " \o ToString(resp.status) \o ": " \o resp.text

\* api_get() raising on server errors only
ApiGetServerErrorsOnly(resp) ==
    IF resp.status >= 500
    THEN [exc |-> Exc("RuntimeError", ApiErrorText(resp)), json |-> <<>>]
    ELSE IF "json" \notin DOMAIN resp
    THEN [exc |-> Exc("JSONDecodeError", "Expecting value: line 1 column 1 (char 0)"),
          json |-> <<>>]
    ELSE [exc |-> NoExc, json |-> resp.json]

\* api_get(): [exc |-> the exception raised or NoExc, json |-> the parsed body]
ApiGet(resp) ==
    IF resp.status >= ErrorStatusFloor
    THEN [exc |-> Exc("RuntimeError", ApiErrorText(resp)), json |-> <<>>]
    ELSE IF "json" \notin DOMAIN resp
    THEN [exc |-> Exc("JSONDecodeError", "Expecting value: line 1 column 1 (char 0)"),
          json |-> <<>>]
    ELSE [exc |-> NoExc, json |-> resp.json]

\* A request that gets no response (requests raises, e.g. on the 30 s timeout).
TimeoutExc == Exc("ReadTimeout", "Read timed out. (read timeout=30)")

NoResp == [status |-> 0, text |-> ""]

\* -------------------------------------------------------------- raw store

\* datetime.fromisoformat(s.replace("Z", "+00:00")).astimezone(utc).replace(tzinfo=None)
IsIso(d) == DOMAIN d = {"t", "off"}
ToUtcNaive(d) == d.t - d.off

\* x.get(k) parsed to a naive UTC datetime when present
OptDate(col, d, k) == IF k \in DOMAIN d THEN (col :> ToUtcNaive(d[k])) ELSE <<>>

\* int(x["id"]) if x.get("id") is not None else None
OptId(col, d) == IF "id" \in DOMAIN d THEN (col :> d.id) ELSE <<>>

\* The tuple upsert_teams appends for team object t.
TeamRow(t, fetched_at) ==
    ("team_id" :> t.id)
        @@ Opt("name", t, "name")
        @@ Opt("short_name", t, "shortName")
        @@ Opt("tla", t, "tla")
        @@ Opt("crest", t, "crest")
        @@ ("fetched_at_utc" :> fetched_at)

\* The exception building the tuple of team object t raises, or NoExc.
TeamRowExc(t) == IF "id" \in DOMAIN t THEN NoExc ELSE Exc("KeyError", "'id'")

\* The tuple upsert_matches appends for match object m.
MatchRow(m, comp_code, season, fetched_at) ==
    LET score == Sub(m, "score")
        ft    == Sub(score, "fullTime")
        ht    == Sub(score, "halfTime")
        home  == Sub(m, "homeTeam")
        away  == Sub(m, "awayTeam")
    IN  ("match_id" :> m.id)
            @@ ("competition_code" :> comp_code)
            @@ ("season_start_year" :> season)
            @@ OptDate("utc_date", m, "utcDate")
            @@ Opt("status", m, "status")
            @@ Opt("matchday", m, "matchday")
            @@ Opt("stage", m, "stage")
            @@ Opt("group_name", m, "group")
            @@ OptId("home_team_id", home)
            @@ Opt("home_team_name", home, "name")
            @@ OptId("away_team_id", away)
            @@ Opt("away_team_name", away, "name")
            @@ Opt("home_score_full", ft, "home")
            @@ Opt("away_score_full", ft, "away")
            @@ Opt("home_score_half", ht, "home")
            @@ Opt("away_score_half", ht, "away")
            @@ Opt("winner", score, "winner")
            @@ OptDate("last_updated_utc", m, "lastUpdated")
            @@ ("fetched_at_utc" :> fetched_at)
            @@ ("raw_json" :> m)

\* The exception building the tuple of match object m raises, or NoExc: the dates
\* are parsed first, m["id"] is read last.
MatchRowExc(m) ==
    IF "utcDate" \in DOMAIN m /\ ~IsIso(m.utcDate)
    THEN Exc("ValueError", "Invalid isoformat string: '" \o m.utcDate.text \o "'")
    ELSE IF "lastUpdated" \in DOMAIN m /\ ~IsIso(m.lastUpdated)
    THEN Exc("ValueError", "Invalid isoformat string: '" \o m.lastUpdated.text \o "'")
    ELSE IF "id" \notin DOMAIN m THEN Exc("KeyError", "'id'")
    ELSE NoExc

\* The first exception a for-loop over objs raises, or NoExc.
RECURSIVE FirstExc(_, _)
FirstExc(excs, i) ==
    IF i > Len(excs) THEN NoExc
    ELSE IF excs[i] # NoExc THEN excs[i]
    ELSE FirstExc(excs, i + 1)

\* DuckDB binding one parameter tuple to the INSERT: a string that is not a number
\* does not cast to an INTEGER column.
Digits == [d \in {"0", "1", "2", "3", "4", "5", "6", "7", "8", "9"} |->
              CASE d = "0" -> 0 [] d = "1" -> 1 [] d = "2" -> 2 [] d = "3" -> 3
                [] d = "4" -> 4 [] d = "5" -> 5 [] d = "6" -> 6 [] d = "7" -> 7
                [] d = "8" -> 8 [] d = "9" -> 9]

Bind(row) ==
    IF "matchday" \notin DOMAIN row THEN [exc |-> NoExc, row |-> row]
    ELSE LET v == row.matchday IN
         IF "int" \in DOMAIN v
         THEN [exc |-> NoExc, row |-> [row EXCEPT !.matchday = v.int]]
         ELSE IF v.str \in DOMAIN Digits
         THEN [exc |-> NoExc, row |-> [row EXCEPT !.matchday = Digits[v.str]]]
         ELSE [exc |-> Exc("ConversionException",
                           "Conversion Error: Could not convert string '" \o v.str
                               \o "' to INT32"),
               row |-> row]

\* The columns the ON CONFLICT clauses assign from excluded.
TeamSetColsNoShortName == {"name", "tla", "crest", "fetched_at_utc"}

TeamSetCols == {"name", "short_name", "tla", "crest", "fetched_at_utc"}

MatchSetCols ==
    {"competition_code", "season_start_year", "utc_date", "status", "matchday",
     "stage", "group_name", "home_team_id", "home_team_name", "away_team_id",
     "away_team_name", "home_score_full", "away_score_full", "home_score_half",
     "away_score_half", "winner", "last_updated_utc", "fetched_at_utc", "raw_json"}

\* DO UPDATE SET c = excluded.c for c in setcols: the other columns keep old's value.
Updated(old, excluded, setcols) ==
    LET dom == {c \in DOMAIN excluded : c \in setcols}
                   \cup {c \in DOMAIN old : c \notin setcols}
    IN  [c \in dom |-> IF c \in setcols THEN excluded[c] ELSE old[c]]

\* a plain INSERT on a table without the primary key
InsertAppend(table, key, setcols, row) == table \cup {row}

\* INSERT ... ON CONFLICT(key) DO UPDATE SET ..., one row, on a table whose key is
\* its primary key.
InsertOnConflict(table, key, setcols, row) ==
    LET hit == {r \in table : r[key] = row[key]}
    IN  IF hit = {} THEN table \cup {row}
        ELSE (table \ hit) \cup {Updated(r, row, setcols) : r \in hit}

\* con.executemany(sql, rows) on an autocommit connection: the statement runs once
\* per tuple, each run committed on its own; the first failing tuple ends the call
\* and the tuples before it stay applied.
RECURSIVE ExecuteMany(_, _, _, _, _)
ExecuteMany(table, key, setcols, rows, i) ==
    IF i > Len(rows) THEN [table |-> table, exc |-> NoExc]
    ELSE LET b == Bind(rows[i]) IN
         IF b.exc # NoExc THEN [table |-> table, exc |-> b.exc]
         ELSE ExecuteMany(InsertOnConflict(table, key, setcols, b.row),
                          key, setcols, rows, i + 1)

\* payload.get(k, [])
GetList(payload, k) == IF k \in DOMAIN payload THEN payload[k] ELSE <<>>

\* upsert_teams(con, teams_payload) at time now:
\* [table |-> raw_teams after, exc |-> what it raised, n |-> what it returned]
UpsertTeams(table, teams_payload, now) ==
    LET teams == GetList(teams_payload, "teams")
        pyexc == FirstExc([i \in 1..Len(teams) |-> TeamRowExc(teams[i])], 1)
    IN  IF pyexc # NoExc THEN [table |-> table, exc |-> pyexc, n |-> 0]
        ELSE LET rows == [i \in 1..Len(teams) |-> TeamRow(teams[i], now)] IN
             IF rows = <<>> THEN [table |-> table, exc |-> NoExc, n |-> 0]
             ELSE LET res == ExecuteMany(table, "team_id", TeamSetCols, rows, 1)
                  IN  [table |-> res.table, exc |-> res.exc, n |-> Len(rows)]

\* upsert_matches(con, comp_code, season, matches_payload) at time now
UpsertMatches(table, comp_code, season, matches_payload, now) ==
    LET matches == GetList(matches_payload, "matches")
        pyexc == FirstExc([i \in 1..Len(matches) |-> MatchRowExc(matches[i])], 1)
    IN  IF pyexc # NoExc THEN [table |-> table, exc |-> pyexc, n |-> 0]
        ELSE LET rows == [i \in 1..Len(matches) |->
                             MatchRow(matches[i], comp_code, season, now)] IN
             IF rows = <<>> THEN [table |-> table, exc |-> NoExc, n |-> 0]
             ELSE LET res == ExecuteMany(table, "match_id", MatchSetCols, rows, 1)
                  IN  [table |-> res.table, exc |-> res.exc, n |-> Len(rows)]

\* The tables ensure_schema creates (CREATE TABLE IF NOT EXISTS).
RawTables == {"raw_teams", "raw_matches", "ingest_runs"}

\* The views the transformation builds over the raw tables.
Views == {"stg_raw_teams", "stg_raw_matches", "fct_team_match",
          "fct_standings_matchday", "mart_league_table_current"}

\* ---------------------------------------------------------------- main()

VARIABLES
    clock,            \* the wall clock the invocation reads, in ticks
    raw_teams,        \* table raw_teams: a set of rows
    raw_matches,      \* table raw_matches
    ingest_runs,      \* table ingest_runs
    pc,               \* the statement of main() the invocation is at
    env,              \* the invocation's environment
    argv,             \* whether --full-refresh is on the invocation's command line
    full_refresh,     \* args.full_refresh
    run_id,           \* main's run_id (whole seconds), NoRun before it is set
    run_ts,           \* main's run_ts
    teams_resp,       \* the response to the teams request
    matches_resp,     \* the response to the matches request
    teams_payload,    \* main's teams_payload
    matches_payload,  \* main's matches_payload
    n_teams,          \* main's n_teams
    n_matches,        \* main's n_matches
    exc,              \* the exception in flight, then the one main raised
    outcome,          \* "running", "returned" or "raised"
    runs,             \* invocations so far
    trace,            \* the statements of the try block this invocation completed
    failed_at,        \* the statement that raised, "" if none
    requests,         \* upstream requests this invocation issued
    prev,             \* the previous invocation, as it ended
    db_exists,        \* whether the DuckDB file exists
    catalog,          \* the tables and views the DuckDB file holds
    selected_team_id, \* st.session_state["selected_team_id"], per session
    refreshing,       \* st.session_state["refreshing"], per session
    refresh_result,   \* st.session_state["refresh_result"], per session
    last_refreshed_team_id, \* st.session_state["last_refreshed_team_id"], per session
    cache_buster,     \* st.session_state["cache_buster"], per session
    script,           \* where each session's script run is
    query_result      \* what the last call of query_df did

vars == <<clock, raw_teams, raw_matches, ingest_runs, pc, env, argv, full_refresh, run_id,
          run_ts, teams_resp, matches_resp, teams_payload, matches_payload, n_teams,
          n_matches, exc, outcome, runs, trace, failed_at, requests, prev,
          db_exists, catalog, selected_team_id, refreshing, refresh_result,
          last_refreshed_team_id, cache_buster, script, query_result>>

store == <<raw_teams, raw_matches, ingest_runs>>
locals == <<env, argv, full_refresh, run_id, run_ts, teams_resp, matches_resp,
            teams_payload, matches_payload, n_teams, n_matches>>
\* main() as a whole: its clock, its position and what it records of itself
ingestion == <<clock, pc, locals, exc, outcome, runs, trace, failed_at, requests, prev>>
\* the app's sessions
sessions == <<selected_team_id, refreshing, refresh_result, last_refreshed_team_id,
              cache_buster, script, query_result>>

NoPrev == [outcome |-> "none"]

\* The browser sessions of the app: each has its own st.session_state.
Sessions == {1, 2}

\* selected_team_id is None
NoTeam == 0

\* refresh_result is None
NoResult == <<>>

\* query_df has not been called
NoCall == [outcome |-> "none"]

\* session_defaults, set in every new session (app.py lines 23-36)
SessionDefaults ==
    /\ selected_team_id = [s \in Sessions |-> NoTeam]
    /\ refreshing = [s \in Sessions |-> FALSE]
    /\ refresh_result = [s \in Sessions |-> NoResult]
    /\ last_refreshed_team_id = [s \in Sessions |-> NoTeam]
    /\ cache_buster = [s \in Sessions |-> 0]
    /\ script = [s \in Sessions |-> "idle"]
    /\ query_result = NoCall

\* main() before its first invocation
NotInvoked ==
    /\ clock = 0
    /\ pc = "idle"
    /\ env = <<>>
    /\ argv = FALSE
    /\ full_refresh = FALSE
    /\ run_id = NoRun
    /\ run_ts = clock
    /\ teams_resp = NoResp
    /\ matches_resp = NoResp
    /\ teams_payload = <<>>
    /\ matches_payload = <<>>
    /\ n_teams = 0
    /\ n_matches = 0
    /\ exc = NoExc
    /\ outcome = "none"
    /\ runs = 0
    /\ trace = <<>>
    /\ failed_at = ""
    /\ requests = 0
    /\ prev = NoPrev

Init ==
    /\ NotInvoked
    /\ raw_teams = {}
    /\ raw_matches = {}
    /\ ingest_runs = {}
    /\ db_exists = FALSE
    /\ catalog = {}
    /\ SessionDefaults

\* strftime("%Y%m%dT%H%M%SZ") of the clock: the time to the whole second
RunId(now) == now \div TicksPerSecond

\* The instants of the wall clock.
Instants == 0..MaxClock

\* The statement at pc raised e: control goes to the except clause.
Raise(e) ==
    /\ exc' = e
    /\ failed_at' = pc
    /\ pc' = "except"
    /\ UNCHANGED <<outcome, trace>>

\* The statement at pc completed: control goes to statement next.
Goto(next) ==
    /\ trace' = Append(trace, pc)
    /\ pc' = next
    /\ UNCHANGED <<exc, outcome, failed_at>>

\* The invocation before this one, when it returned: its mode, its payloads and the
\* tables as it left them.
Ended ==
    IF outcome # "returned" THEN NoPrev
    ELSE [outcome |-> outcome, full_refresh |-> full_refresh,
          teams_payload |-> teams_payload, matches_payload |-> matches_payload,
          raw_teams |-> raw_teams, raw_matches |-> raw_matches]

\* main() is called at instant now, after the invocation before it has ended, with
\* environment e and --full-refresh fr: load_settings, parse_args, run_id, run_ts,
\* duckdb.connect (lines 204-217).
Invoke(e, fr, now) ==
    /\ pc \in {"idle", "done"}
    /\ runs < MaxRuns
    /\ pc = "done" => now > clock
    /\ clock' = now
    /\ runs' = runs + 1
    /\ prev' = Ended
    /\ env' = e
    /\ argv' = fr
    /\ teams_resp' = NoResp
    /\ matches_resp' = NoResp
    /\ teams_payload' = <<>>
    /\ matches_payload' = <<>>
    /\ n_teams' = 0
    /\ n_matches' = 0
    /\ trace' = <<>>
    /\ failed_at' = ""
    /\ requests' = 0
    /\ IF LoadSettingsTokenMissing(e)
       THEN /\ exc' = Exc("RuntimeError", ConfigErrorText)
            /\ outcome' = "raised"
            /\ pc' = "done"
            /\ full_refresh' = FALSE
            /\ run_id' = NoRun
            /\ run_ts' = now
       ELSE /\ exc' = NoExc
            /\ outcome' = "running"
            /\ pc' = "truncate"
            /\ full_refresh' = fr
            /\ run_id' = RunId(now)
            /\ run_ts' = now
    /\ db_exists' = (db_exists \/ ~LoadSettingsTokenMissing(e))
    /\ UNCHANGED <<store, catalog, sessions>>

\* the DELETE run whatever the mode
TruncatedAlways(fr, table) == {}

\* DELETE FROM t, when --full-refresh was given
Truncated(fr, table) == IF fr THEN {} ELSE table

\* ensure_schema, then the two DELETEs of a full refresh (lines 219-223)
Truncate ==
    /\ pc = "truncate"
    /\ raw_matches' = Truncated(full_refresh, raw_matches)
    /\ raw_teams' = Truncated(full_refresh, raw_teams)
    /\ Goto("insert_run")
    /\ catalog' = catalog \cup RawTables
    /\ UNCHANGED <<clock, ingest_runs, locals, runs, requests, prev, db_exists, sessions>>

\* INSERT INTO ingest_runs ... 'STARTED', NULL (lines 225-228): run_id is the
\* primary key.
InsertRun ==
    /\ pc = "insert_run"
    /\ IF \E r \in ingest_runs : r.run_id = run_id
       THEN /\ Raise(Exc("ConstraintException",
                         "Constraint Error: Duplicate key run_id violates primary key constraint"))
            /\ UNCHANGED ingest_runs
       ELSE /\ ingest_runs' = ingest_runs \cup
                   {[run_id |-> run_id, run_ts_utc |-> run_ts,
                     comp_code |-> DefaultCompCode, season |-> DefaultSeason,
                     status |-> "STARTED"]}
            /\ Goto("fetch_teams")
    /\ UNCHANGED <<clock, raw_teams, raw_matches, locals, runs, requests, prev,
                   db_exists, catalog, sessions>>

\* teams_payload = api_get(".../teams", ...) (line 231)
FetchTeams ==
    /\ pc = "fetch_teams"
    /\ requests' = requests + 1
    /\ \/ /\ Raise(TimeoutExc)
          /\ UNCHANGED <<teams_resp, teams_payload>>
       \/ \E resp \in TeamsResponses :
            LET got == ApiGet(resp) IN
            /\ teams_resp' = resp
            /\ IF got.exc # NoExc
               THEN Raise(got.exc) /\ UNCHANGED teams_payload
               ELSE Goto("upsert_teams") /\ teams_payload' = got.json
    /\ UNCHANGED <<clock, store, env, argv, full_refresh, run_id, run_ts, matches_resp,
                   matches_payload, n_teams, n_matches, runs, prev,
                   db_exists, catalog, sessions>>

\* n_teams = upsert_teams(con, teams_payload) (line 232)
UpsertTeamsStep ==
    /\ pc = "upsert_teams"
    /\ LET res == UpsertTeams(raw_teams, teams_payload, clock) IN
       /\ raw_teams' = res.table
       /\ IF res.exc # NoExc
          THEN Raise(res.exc) /\ UNCHANGED n_teams
          ELSE Goto("fetch_matches") /\ n_teams' = res.n
    /\ UNCHANGED <<clock, raw_matches, ingest_runs, env, argv, full_refresh, run_id, run_ts,
                   teams_resp, matches_resp, teams_payload, matches_payload,
                   n_matches, runs, requests, prev, db_exists, catalog, sessions>>

\* matches_payload = api_get(".../matches", ...) (line 235)
FetchMatches ==
    /\ pc = "fetch_matches"
    /\ requests' = requests + 1
    /\ \/ /\ Raise(TimeoutExc)
          /\ UNCHANGED <<matches_resp, matches_payload>>
       \/ \E resp \in MatchesResponses :
            LET got == ApiGet(resp) IN
            /\ matches_resp' = resp
            /\ IF got.exc # NoExc
               THEN Raise(got.exc) /\ UNCHANGED matches_payload
               ELSE Goto("upsert_matches") /\ matches_payload' = got.json
    /\ UNCHANGED <<clock, store, env, argv, full_refresh, run_id, run_ts, teams_resp,
                   teams_payload, n_teams, n_matches, runs, prev,
                   db_exists, catalog, sessions>>

\* n_matches = upsert_matches(con, comp_code, season, matches_payload) (line 236)
UpsertMatchesStep ==
    /\ pc = "upsert_matches"
    /\ LET res == UpsertMatches(raw_matches, DefaultCompCode, DefaultSeason,
                                matches_payload, clock) IN
       /\ raw_matches' = res.table
       /\ IF res.exc # NoExc
          THEN Raise(res.exc) /\ UNCHANGED n_matches
          ELSE Goto("mark_success") /\ n_matches' = res.n
    /\ UNCHANGED <<clock, raw_teams, ingest_runs, env, argv, full_refresh, run_id, run_ts,
                   teams_resp, matches_resp, teams_payload, matches_payload,
                   n_teams, runs, requests, prev, db_exists, catalog, sessions>>

\* UPDATE ingest_runs SET status = s, details = d WHERE run_id = id
UpdateRun(table, id, s, d) ==
    {IF r.run_id = id THEN ("details" :> d) @@ [r EXCEPT !.status = s] ELSE r
        : r \in table}

\* the two counts in the other order
SuccessDetailsSwapped(n, m) == "teams=" \o ToString(m) \o ", matches=" \o ToString(n)

\* f"teams={n_teams}, matches={n_matches}"
SuccessDetails(n, m) == "teams=" \o ToString(n) \o ", matches=" \o ToString(m)

\* str(e), not cut
FailureDetailsUncut(e) == e.text

\* str(e)[:5000]
FailureDetails(e) == Prefix(e.text, DetailsCap)

\* The UPDATE to SUCCESS, the print, finally con.close(): main returns
\* (lines 238-245, 255-256).
MarkSuccess ==
    /\ pc = "mark_success"
    /\ ingest_runs' = UpdateRun(ingest_runs, run_id, "SUCCESS",
                                SuccessDetails(n_teams, n_matches))
    /\ trace' = Append(trace, pc)
    /\ pc' = "done"
    /\ outcome' = "returned"
    /\ UNCHANGED <<clock, raw_teams, raw_matches, locals, exc, runs, failed_at,
                   requests, prev, db_exists, catalog, sessions>>

\* except Exception: the UPDATE to FAILED, raise, finally con.close(): main raises
\* (lines 247-256).
HandleException ==
    /\ pc = "except"
    /\ ingest_runs' = UpdateRun(ingest_runs, run_id, "FAILED", FailureDetails(exc))
    /\ pc' = "done"
    /\ outcome' = "raised"
    /\ UNCHANGED <<clock, raw_teams, raw_matches, locals, exc, runs, trace,
                   failed_at, requests, prev, db_exists, catalog, sessions>>

Next ==
    \/ \E e \in Environments, fr \in BOOLEAN, now \in Instants : Invoke(e, fr, now)
    \/ Truncate
    \/ InsertRun
    \/ FetchTeams
    \/ UpsertTeamsStep
    \/ FetchMatches
    \/ UpsertMatchesStep
    \/ MarkSuccess
    \/ HandleException

Spec == Init /\ [][Next]_vars

\* ------------------------------------------------------------- properties

TryStatements == <<"truncate", "insert_run", "fetch_teams", "upsert_teams",
                   "fetch_matches", "upsert_matches", "mark_success">>

DataSteps == {"fetch_teams", "upsert_teams", "fetch_matches", "upsert_matches"}

Done(steps) == {steps[i] : i \in 1..Len(steps)}

\* The ingest_runs rows of this invocation's run_id.
OwnRows == {r \in ingest_runs : r.run_id = run_id}

Keys(table, key) == {r[key] : r \in table}

\* A table without its fetched_at_utc column.
WithoutFetchedAt(table) ==
    {[c \in DOMAIN r \ {"fetched_at_utc"} |-> r[c]] : r \in table}

\* This invocation returned, and so did the one before it, on the same payloads.
SamePayloadAgain ==
    /\ pc = "done"
    /\ outcome = "returned"
    /\ prev.outcome = "returned"
    /\ prev.teams_payload = teams_payload
    /\ prev.matches_payload = matches_payload

\* C1, as stated: ingesting the same payload twice in a row leaves raw_teams and
\* raw_matches exactly as the first ingestion left them, row for row and column
\* for column.
C1_SameStateAsOnce ==
    SamePayloadAgain =>
        /\ raw_teams = prev.raw_teams
        /\ raw_matches = prev.raw_matches

\* C1, amended: ingesting the same payload twice in a row in the same mode leaves
\* both tables with the row counts and the column values the first ingestion left,
\* except for fetched_at_utc.
C1_SameStateButFetchedAt ==
    (SamePayloadAgain /\ prev.full_refresh = full_refresh) =>
        /\ Cardinality(raw_teams) = Cardinality(prev.raw_teams)
        /\ Cardinality(raw_matches) = Cardinality(prev.raw_matches)
        /\ WithoutFetchedAt(raw_teams) = WithoutFetchedAt(prev.raw_teams)
        /\ WithoutFetchedAt(raw_matches) = WithoutFetchedAt(prev.raw_matches)

\* Two runs in a row on the same payloads, the second having rewritten rows of both
\* tables at a later time.
C1_Witness ==
    /\ SamePayloadAgain
    /\ prev.full_refresh = full_refresh
    /\ raw_teams # {} /\ raw_teams # prev.raw_teams
    /\ raw_matches # {} /\ raw_matches # prev.raw_matches

\* The tuples of rows that executemany applied: those before the first one that
\* does not bind.
RECURSIVE Applied(_, _)
Applied(rows, i) ==
    IF i > Len(rows) \/ Bind(rows[i]).exc # NoExc THEN <<>>
    ELSE <<Bind(rows[i]).row>> \o Applied(rows, i + 1)

\* The last of rows with key value k.
LastWith(rows, key, k) ==
    rows[CHOOSE i \in 1..Len(rows) :
            /\ rows[i][key] = k
            /\ \A j \in (i + 1)..Len(rows) : rows[j][key] # k]

\* An upsert of the tuples rows took table before to table after: every incoming
\* key has exactly the last incoming row for it, and the other rows are as before.
LastWriteWins(before, after, key, rows) ==
    LET incoming == {rows[i][key] : i \in 1..Len(rows)}
    IN  /\ Keys(after, key) = Keys(before, key) \cup incoming
        /\ \A k \in incoming : {r \in after : r[key] = k} = {LastWith(rows, key, k)}
        /\ \A r \in before : r[key] \notin incoming => r \in after

TeamRowsIn(payload, now) ==
    LET teams == GetList(payload, "teams")
    IN  [i \in 1..Len(teams) |-> TeamRow(teams[i], now)]

MatchRowsIn(payload, now) ==
    LET matches == GetList(payload, "matches")
    IN  [i \in 1..Len(matches) |->
            MatchRow(matches[i], DefaultCompCode, DefaultSeason, now)]

UniqueKey(table, key) == \A r1, r2 \in table : r1[key] = r2[key] => r1 = r2

\* The exceptions raised while an upsert builds its tuples, before it writes.
RowBuilding == {"KeyError", "ValueError"}

\* C2: raw_teams holds at most one row per team_id and raw_matches at most one per
\* match_id; an upsert call leaves, for every key among the tuples it applied,
\* exactly the last incoming row for that key (absent keys inserted, every column
\* of a present key overwritten, nothing appended), and leaves the other rows alone.
C2_LastWriteWins ==
    /\ [](UniqueKey(raw_teams, "team_id") /\ UniqueKey(raw_matches, "match_id"))
    /\ [][pc = "upsert_teams" =>
             IF exc'.type \in RowBuilding THEN raw_teams' = raw_teams
             ELSE LastWriteWins(raw_teams, raw_teams', "team_id",
                                Applied(TeamRowsIn(teams_payload, clock), 1))]_vars
    /\ [][pc = "upsert_matches" =>
             IF exc'.type \in RowBuilding THEN raw_matches' = raw_matches
             ELSE LastWriteWins(raw_matches, raw_matches', "match_id",
                                Applied(MatchRowsIn(matches_payload, clock), 1))]_vars

\* Team 1 had a short_name after the previous run; this run's upsert of a record
\* without shortName left team 1 one row, with short_name NULL.
C2_Witness ==
    /\ ~full_refresh
    /\ pc = "fetch_matches"
    /\ prev.outcome = "returned"
    /\ \E q \in prev.raw_teams : q.team_id = 1 /\ "short_name" \in DOMAIN q
    /\ \E r \in raw_teams : r.team_id = 1 /\ "short_name" \notin DOMAIN r
    /\ Cardinality(raw_teams) = 2

\* C3: an invocation of main() that got past its settings ends with exactly one
\* ingest_runs row of its own, inserted by it, in status SUCCESS or FAILED.
C3_OneTerminalRowPerInvocation ==
    (pc = "done" /\ run_id # NoRun) =>
        /\ "insert_run" \in Done(trace)
        /\ Cardinality(OwnRows) = 1
        /\ \A r \in OwnRows : r.status \in {"SUCCESS", "FAILED"}

Min(a, b) == IF a < b THEN a ELSE b

\* C4: when the teams fetch, the teams upsert, the matches fetch or the matches
\* upsert raised, main ends by raising that same exception, and the run's row is
\* FAILED with the exception's text cut to its first 5000 characters; the except
\* clause never turns the exception into a return.
C4_FailureRecordedAndReraised ==
    /\ []((pc = "done" /\ failed_at \in DataSteps) =>
            /\ outcome = "raised"
            /\ Cardinality(OwnRows) = 1
            /\ \A r \in OwnRows :
                /\ r.status = "FAILED"
                /\ Len(r.details) = Min(Len(exc.text), 5000)
                /\ r.details = SubSeq(exc.text, 1, Len(r.details)))
    /\ [][pc = "except" => (exc' = exc /\ outcome' = "raised" /\ pc' = "done")]_vars
    /\ [](failed_at \in DataSteps => outcome # "returned")

\* The matches fetch raised an error longer than 5000 characters, and the run's row
\* holds its first 5000.
C4_Witness ==
    /\ pc = "done"
    /\ failed_at = "fetch_matches"
    /\ Len(exc.text) > 5000
    /\ \E r \in OwnRows : r.status = "FAILED" /\ Len(r.details) = 5000

\* C5: a run that returns has executed fetch teams, upsert teams, fetch matches,
\* upsert matches, mark SUCCESS, in that order; its row is SUCCESS with details
\* "teams=<n>, matches=<m>", n and m the numbers of records in the two payloads;
\* and a row becomes SUCCESS only in the last step, after both upserts.
C5_OrderAndSuccessDetails ==
    /\ []((pc = "done" /\ outcome = "returned") =>
            /\ trace = TryStatements
            /\ \A r \in OwnRows :
                /\ r.status = "SUCCESS"
                /\ r.details = "teams="
                      \o ToString(Len(GetList(teams_payload, "teams")))
                      \o ", matches="
                      \o ToString(Len(GetList(matches_payload, "matches"))))
    /\ [][(\E r \in ingest_runs' : r.status = "SUCCESS" /\ r \notin ingest_runs) =>
             /\ pc = "mark_success"
             /\ trace = SubSeq(TryStatements, 1, 6)]_vars

\* A run that upserted one team record and two match records returned.
C5_Witness ==
    /\ pc = "done"
    /\ outcome = "returned"
    /\ \E r \in OwnRows : r.details = "teams=1, matches=2"

\* C6: when the matches fetch or the matches upsert raises after the teams upsert
\* succeeded, the step that raised leaves raw_teams and raw_matches as they were
\* before it, and the run ends FAILED.
C6_PartialCompletionKept ==
    /\ [][(pc \in {"fetch_matches", "upsert_matches"} /\ pc' = "except") =>
             (raw_teams' = raw_teams /\ raw_matches' = raw_matches)]_vars
    /\ []((pc = "done" /\ failed_at \in {"fetch_matches", "upsert_matches"}) =>
             \A r \in OwnRows : r.status = "FAILED")

\* C7: an upsert call applies its whole batch or nothing: either it completes, or
\* it leaves its table exactly as it was before the call.
C7_BatchAllOrNothing ==
    /\ [][pc = "upsert_teams" =>
             (pc' = "fetch_matches" \/ raw_teams' = raw_teams)]_vars
    /\ [][pc = "upsert_matches" =>
             (pc' = "mark_success" \/ raw_matches' = raw_matches)]_vars

\* FOOTBALL_DATA_TOKEN is unset, empty or all spaces.
BlankToken(e) ==
    \/ "FOOTBALL_DATA_TOKEN" \notin DOMAIN e
    \/ \A i \in 1..Len(e.FOOTBALL_DATA_TOKEN) :
          SubSeq(e.FOOTBALL_DATA_TOKEN, i, i) = " "

\* C8: an invocation whose token is unset, empty or all spaces ends at once by
\* raising the configuration error: it issues no upstream request, executes no
\* statement of the try block, and leaves raw_teams, raw_matches and ingest_runs
\* as they were, with or without --full-refresh.
C8_BlankTokenFailsFirst ==
    /\ []((runs > 0 /\ BlankToken(env)) =>
            /\ pc = "done"
            /\ outcome = "raised"
            /\ exc = Exc("RuntimeError", ConfigErrorText)
            /\ requests = 0
            /\ trace = <<>>)
    /\ [][(runs' # runs /\ BlankToken(env')) =>
             (raw_teams' = raw_teams /\ raw_matches' = raw_matches
                 /\ ingest_runs' = ingest_runs)]_vars

\* A full refresh was asked for with an all-spaces token, over tables the run
\* before had filled: the invocation ended and the rows are still there.
C8_Witness ==
    /\ pc = "done"
    /\ env = [FOOTBALL_DATA_TOKEN |-> "  "]
    /\ argv
    /\ outcome = "raised"
    /\ raw_teams # {} /\ raw_matches # {} /\ ingest_runs # {}

\* What api_get raises for a response it refuses: status code and body, verbatim.
ApiError(resp) ==
    Exc("RuntimeError", "API error " \o ToString(resp.status) \o ": " \o resp.text)

\* The fetch at statement step got response resp, and the invocation failed there
\* with the API error of resp, upserting nothing of it; once ended, the run is FAILED.
RefusedAt(step, resp, payload, upsert) ==
    /\ failed_at = step
    /\ pc \in {"except", "done"}
    /\ exc = ApiError(resp)
    /\ payload = <<>>
    /\ upsert \notin Done(trace)
    /\ pc = "done" =>
          /\ outcome = "raised"
          /\ \A r \in OwnRows : r.status = "FAILED"

\* C9, as stated: every response outside 200..299, to either fetch, fails the
\* ingestion with an error carrying its status code and body; nothing of it is
\* upserted and the run is FAILED.
C9_Non2xxRefused ==
    /\ (teams_resp # NoResp /\ teams_resp.status \notin 200..299) =>
          RefusedAt("fetch_teams", teams_resp, teams_payload, "upsert_teams")
    /\ (matches_resp # NoResp /\ matches_resp.status \notin 200..299) =>
          RefusedAt("fetch_matches", matches_resp, matches_payload, "upsert_matches")

\* C9, amended: every response with a status code of 400 or more, to either fetch,
\* fails the ingestion with an error carrying its status code and body; nothing of
\* it is upserted and the run is FAILED.
C9_ErrorStatusRefused ==
    /\ (teams_resp # NoResp /\ teams_resp.status >= 400) =>
          RefusedAt("fetch_teams", teams_resp, teams_payload, "upsert_teams")
    /\ (matches_resp # NoResp /\ matches_resp.status >= 400) =>
          RefusedAt("fetch_matches", matches_resp, matches_payload, "upsert_matches")

\* The matches fetch was answered 429 and the run ended FAILED.
C9_Witness ==
    /\ pc = "done"
    /\ matches_resp.status = 429
    /\ outcome = "raised"
    /\ \E r \in OwnRows : r.status = "FAILED"

\* C10: a step removes a team_id or a match_id only if it is the truncation of a
\* full-refresh run; a full-refresh run has both tables empty from its truncation
\* until its first upsert; and no step removes an ingest_runs row.
C10_OnlyFullRefreshDeletes ==
    /\ [][\/ /\ Keys(raw_teams, "team_id") \subseteq Keys(raw_teams', "team_id")
             /\ Keys(raw_matches, "match_id") \subseteq Keys(raw_matches', "match_id")
          \/ full_refresh /\ pc = "truncate"]_vars
    /\ []((full_refresh /\ pc \in {"insert_run", "fetch_teams", "upsert_teams"}) =>
             (raw_teams = {} /\ raw_matches = {}))
    /\ [][/\ Keys(ingest_runs, "run_id") \subseteq Keys(ingest_runs', "run_id")
          /\ Cardinality(ingest_runs') >= Cardinality(ingest_runs)]_vars

\* A full-refresh run has emptied tables that the run before had filled, and the
\* earlier run's ingest_runs row is still there.
C10_Witness ==
    /\ full_refresh
    /\ pc = "upsert_teams"
    /\ prev.outcome = "returned"
    /\ prev.raw_teams # {} /\ prev.raw_matches # {}
    /\ raw_teams = {} /\ raw_matches = {}
    /\ Cardinality(ingest_runs) = 2

\* ------------------------------------------------------------ derived views

\* stg_raw_teams, with the columns and aliases the app falls back to on raw_teams
\* (the crest is the raw table's crest column).
StgRawTeams(teams) ==
    {("team_id" :> r.team_id) @@ Opt("team_name", r, "name")
         @@ Opt("team_crest_url", r, "crest") : r \in teams}

\* The statuses of a match that counts as played.
CompleteStatuses == {"FINISHED"}

\* A match with a determinate result: complete, both full-time scores not NULL.
Determinate(m) ==
    /\ "status" \in DOMAIN m
    /\ m.status \in CompleteStatuses
    /\ "home_score_full" \in DOMAIN m
    /\ "away_score_full" \in DOMAIN m

\* W, D or L by comparing the goals scored with the goals conceded.
ResultOf(gf, ga) == IF gf > ga THEN "W" ELSE IF gf = ga THEN "D" ELSE "L"

\* every result worth a point
PointsOfFlat(result) == 1

\* The standard 3/1/0 rule.
PointsOf(result) == CASE result = "W" -> 3 [] result = "D" -> 1 [] result = "L" -> 0

\* The TeamMatch row of one side of match m.
TeamMatchRow(m, is_home) ==
    LET gf == IF is_home THEN m.home_score_full ELSE m.away_score_full
        ga == IF is_home THEN m.away_score_full ELSE m.home_score_full
        own == IF is_home THEN "home_team_id" ELSE "away_team_id"
        opp == IF is_home THEN "away_team_id" ELSE "home_team_id"
    IN  [match_id |-> m.match_id, is_home |-> is_home,
         goals_for |-> gf, goals_against |-> ga,
         result |-> ResultOf(gf, ga), points |-> PointsOf(ResultOf(gf, ga))]
            @@ Opt("team_id", m, own)
            @@ Opt("opponent_team_id", m, opp)
            @@ Opt("matchday", m, "matchday")
            @@ Opt("match_date", m, "utc_date")

\* the home side's row only
TeamMatchHomeOnly(matches) ==
    {TeamMatchRow(m, TRUE) : m \in {x \in matches : Determinate(x)}}

\* TeamMatch projection: two mirrored rows for every match with a determinate
\* result, none for the others.
TeamMatch(matches) ==
    UNION {{TeamMatchRow(m, TRUE), TeamMatchRow(m, FALSE)} :
              m \in {x \in matches : Determinate(x)}}

\* The characters of team names, in code point order.
Alphabet == " ABCDEFGHIJKLMNOPQRSTUVWXYZabcdefghijklmnopqrstuvwxyz"

CodePoint(c) == CHOOSE i \in 1..Len(Alphabet) : SubSeq(Alphabet, i, i) = c

\* a < b, lexicographically
RECURSIVE StrLess(_, _)
StrLess(a, b) ==
    IF Len(b) = 0 THEN FALSE
    ELSE IF Len(a) = 0 THEN TRUE
    ELSE LET x == CodePoint(SubSeq(a, 1, 1))
             y == CodePoint(SubSeq(b, 1, 1))
         IN  IF x # y THEN x < y
             ELSE StrLess(SubSeq(a, 2, Len(a)), SubSeq(b, 2, Len(b)))

\* sum(col) over rows
RECURSIVE SumOf(_, _)
SumOf(rows, col) ==
    IF rows = {} THEN 0
    ELSE LET r == CHOOSE x \in rows : TRUE
         IN  r[col] + SumOf(rows \ {r}, col)

\* The TeamMatch rows that a team's history is built from.
Placed(tm) ==
    {r \in tm : {"team_id", "matchday", "match_date"} \subseteq DOMAIN r}

\* The team's rows up to and including the triggering match r, by match_date.
UpTo(tm, r) ==
    {q \in Placed(tm) : q.team_id = r.team_id /\ q.match_date <= r.match_date}

\* The running aggregate of a team after the triggering match r; the matchday
\* recorded is r's.
Cumulative(tm, teams, r) ==
    LET rows == UpTo(tm, r)
        gf   == SumOf(rows, "goals_for")
        ga   == SumOf(rows, "goals_against")
        name == {t \in StgRawTeams(teams) : t.team_id = r.team_id}
    IN  [team_id |-> r.team_id, matchday |-> r.matchday,
         last_match_date |-> r.match_date,
         played |-> Cardinality(rows),
         won |-> Cardinality({q \in rows : q.result = "W"}),
         drawn |-> Cardinality({q \in rows : q.result = "D"}),
         lost |-> Cardinality({q \in rows : q.result = "L"}),
         gf |-> gf, ga |-> ga, gd |-> gf - ga,
         points |-> SumOf(rows, "points")]
            @@ (IF name = {} THEN <<>>
                ELSE Opt("team_name", CHOOSE t \in name : TRUE, "team_name"))

\* team_name asc, NULLs last
NameBefore(x, y) ==
    /\ "team_name" \in DOMAIN x
    /\ "team_name" \in DOMAIN y => StrLess(x.team_name, y.team_name)

\* the ranking without the tie-break on the name
BeforeNoName(x, y) ==
    \/ x.points > y.points
    \/ x.points = y.points /\ x.gd > y.gd
    \/ x.points = y.points /\ x.gd = y.gd /\ x.gf > y.gf

\* x ranks before y: points desc, goal difference desc, goals for desc, name asc.
Before(x, y) ==
    \/ x.points > y.points
    \/ x.points = y.points /\ x.gd > y.gd
    \/ x.points = y.points /\ x.gd = y.gd /\ x.gf > y.gf
    \/ x.points = y.points /\ x.gd = y.gd /\ x.gf = y.gf /\ NameBefore(x, y)

\* The rows of a table, each with its position among them.
Ranked(rows) ==
    {("position" :> 1 + Cardinality({y \in rows : Before(y, x)})) @@ x : x \in rows}

\* StandingsSnapshot: one row per team and triggering match, ranked among the rows
\* recorded for the same matchday.
StandingsSnapshot(matches, teams) ==
    LET tm   == TeamMatch(matches)
        rows == {Cumulative(tm, teams, r) : r \in Placed(tm)}
    IN  UNION {Ranked({x \in rows : x.matchday = d}) : d \in {x.matchday : x \in rows}}

\* LeagueTableCurrent: per team the snapshot with the maximum matchday, ranked.
LeagueTableCurrent(matches, teams) ==
    LET snaps == {[c \in DOMAIN x \ {"position"} |-> x[c]] :
                     x \in StandingsSnapshot(matches, teams)}
    IN  Ranked({x \in snaps :
                   \A y \in snaps : y.team_id = x.team_id => y.matchday <= x.matchday})

\* The views the app reads, over the raw store.
stg_raw_teams == StgRawTeams(raw_teams)
fct_team_match == TeamMatch(raw_matches)
fct_standings_matchday == StandingsSnapshot(raw_matches, raw_teams)
mart_league_table_current == LeagueTableCurrent(raw_matches, raw_teams)

\* ------------------------------------------------------- the app's overview

\* The rows of a set in ascending order of column col.
RECURSIVE OrderBy(_, _)
OrderBy(rows, col) ==
    IF rows = {} THEN <<>>
    ELSE LET r == CHOOSE x \in rows : \A y \in rows : x[col] <= y[col]
         IN  <<r>> \o OrderBy(rows \ {r}, col)

\* One row of pos_history: the snapshot row s left-joined with the team's match of
\* the same matchday and with the opponent's team row.
PosHistoryRows(s) ==
    LET tms == {tm \in fct_team_match :
                   /\ {"team_id", "matchday"} \subseteq DOMAIN tm
                   /\ tm.matchday = s.matchday /\ tm.team_id = s.team_id}
        cols == [matchday |-> s.matchday, as_of_date |-> s.last_match_date,
                 position |-> s.position, points |-> s.points, gd |-> s.gd]
        Opp(tm) == {o \in stg_raw_teams :
                       "opponent_team_id" \in DOMAIN tm /\ o.team_id = tm.opponent_team_id}
        Joined(tm) ==
            cols @@ [result |-> tm.result, goals_for |-> tm.goals_for,
                     goals_against |-> tm.goals_against]
        Named(tm, o) ==
            Joined(tm) @@ Opt("opponent", o, "team_name")
                       @@ Opt("opponent_crest_url", o, "team_crest_url")
    IN  IF tms = {} THEN {cols}
        ELSE UNION {IF Opp(tm) = {} THEN {Joined(tm)}
                    ELSE {Named(tm, o) : o \in Opp(tm)} : tm \in tms}

\* pos_history for the selected team: the query's rows, order by s.matchday.
PosHistory(team_id) ==
    OrderBy(UNION {PosHistoryRows(s) :
                      s \in {x \in fct_standings_matchday : x.team_id = team_id}},
            "matchday")

\* latest_pos = pos_history.tail(1)
LatestPos(team_id) ==
    LET h == PosHistory(team_id)
    IN  IF h = <<>> THEN <<>> ELSE <<h[Len(h)]>>

\* The KPIs of the overview tab (PPG, points over played to two decimals, left
\* out): from latest_pos, else from the league table's row of the team.
Metrics(team_id) ==
    LET latest_pos == LatestPos(team_id)
        row == {r \in mart_league_table_current : r.team_id = team_id}
    IN  IF latest_pos # <<>>
        THEN LET lp == latest_pos[1]
             IN  [Position |-> lp.position, Points |-> lp.points, GD |-> lp.gd,
                  Played |-> lp.matchday]
        ELSE IF row # {}
        THEN LET r == CHOOSE x \in row : TRUE
             IN  [Position |-> r.position, Points |-> r.points, GD |-> r.gd,
                  Played |-> r.played]
        ELSE <<>>

\* ------------------------------------------------- a season, match by match

\* Goals in one match, both sides together.
MaxGoals == 1

TeamC == [id |-> 3, name |-> "Coventry City", shortName |-> "Coventry",
          tla |-> "COV", crest |-> "cov.png"]
TeamD == [id |-> 4, name |-> "Derby County", shortName |-> "Derby",
          tla |-> "DER", crest |-> "der.png"]

League == <<TeamA, TeamB, TeamC, TeamD>>

\* The fixture list: matchday 1 is played on day 1, matchday 3 on day 3, and the
\* matchday 2 fixture is postponed to day 4.
Fixtures ==
    << [id |-> 21, matchday |-> 1, day |-> 1, home |-> TeamA, away |-> TeamB],
       [id |-> 22, matchday |-> 1, day |-> 1, home |-> TeamC, away |-> TeamD],
       [id |-> 23, matchday |-> 2, day |-> 4, home |-> TeamB, away |-> TeamD],
       [id |-> 24, matchday |-> 3, day |-> 3, home |-> TeamB, away |-> TeamC] >>

Scores == {sc \in (0..MaxGoals) \X (0..MaxGoals) : sc[1] + sc[2] <= MaxGoals}

\* The match object the upstream sends for fixture f before it is played.
Scheduled(f) ==
    [id |-> f.id, utcDate |-> Iso(f.day, 0), status |-> "SCHEDULED",
     matchday |-> JInt(f.matchday), stage |-> "REGULAR_SEASON",
     homeTeam |-> [id |-> f.home.id, name |-> f.home.name],
     awayTeam |-> [id |-> f.away.id, name |-> f.away.name],
     score |-> [fullTime |-> <<>>, halfTime |-> <<>>],
     lastUpdated |-> Iso(0, 0)]

\* The match object the upstream sends for fixture f in status status at score sc.
Played(f, status, sc) ==
    [Scheduled(f) EXCEPT
        !.status = status,
        !.score = [winner |-> IF sc[1] > sc[2] THEN "HOME_TEAM"
                              ELSE IF sc[1] < sc[2] THEN "AWAY_TEAM" ELSE "DRAW",
                   fullTime |-> [home |-> sc[1], away |-> sc[2]],
                   halfTime |-> [home |-> 0, away |-> 0]],
        !.lastUpdated = Iso(f.day, 0)]

\* The season before its first match: the teams and the fixtures ingested, the
\* views built.
DeriveInit ==
    /\ NotInvoked
    /\ raw_teams = UpsertTeams({}, [teams |-> League], 0).table
    /\ raw_matches =
          UpsertMatches({}, DefaultCompCode, DefaultSeason,
                        [matches |-> [i \in 1..Len(Fixtures) |-> Scheduled(Fixtures[i])]],
                        0).table
    /\ ingest_runs = {}
    /\ db_exists = TRUE
    /\ catalog = RawTables \cup Views
    /\ SessionDefaults

\* The matches payload of a later fetch: fixture i now in status status at score sc,
\* the other matches as fetched before.
MatchesNow(i, status, sc) ==
    [matches |->
        [j \in 1..Len(Fixtures) |->
            IF j = i THEN Played(Fixtures[j], status, sc)
            ELSE (CHOOSE r \in raw_matches : r.match_id = Fixtures[j].id).raw_json]]

\* An ingestion in the default mode after fixture i went to status status at
\* score sc, the views rebuilt over the raw store: upsert_matches on the payload.
IngestResult(i, status, sc) ==
    /\ \E r \in raw_matches : r.match_id = Fixtures[i].id /\ r.status # "FINISHED"
    /\ raw_matches' =
          UpsertMatches(raw_matches, DefaultCompCode, DefaultSeason,
                        MatchesNow(i, status, sc), clock).table
    /\ UNCHANGED <<ingestion, raw_teams, ingest_runs, db_exists, catalog, sessions>>

DeriveNext ==
    \E i \in 1..Len(Fixtures), status \in {"IN_PLAY", "FINISHED"}, sc \in Scores :
        IngestResult(i, status, sc)

DeriveSpec == DeriveInit /\ [][DeriveNext]_vars

\* ---------------------------------------------------------------- query_df

\* The exception classes of DuckDB, all of them subclasses of duckdb.Error.
DuckdbErrors ==
    {"IOException", "CatalogException", "ParserException", "BinderException",
     "InvalidInputException", "ConstraintException", "ConversionException"}

\* The rows of the table or view called name in the file db.
Relation(db, name) ==
    CASE name = "raw_teams" -> db.raw_teams
      [] name = "raw_matches" -> db.raw_matches
      [] name = "ingest_runs" -> db.ingest_runs
      [] name = "stg_raw_teams" -> StgRawTeams(db.raw_teams)
      [] name = "stg_raw_matches" -> db.raw_matches
      [] name = "fct_team_match" -> TeamMatch(db.raw_matches)
      [] name = "fct_standings_matchday" ->
            StandingsSnapshot(db.raw_matches, db.raw_teams)
      [] name = "mart_league_table_current" ->
            LeagueTableCurrent(db.raw_matches, db.raw_teams)

\* The columns of the table or view called name.
Columns(name) ==
    CASE name = "raw_teams" ->
            {"team_id", "name", "short_name", "tla", "crest", "fetched_at_utc"}
      [] name = "raw_matches" -> MatchSetCols \cup {"match_id"}
      [] name = "ingest_runs" ->
            {"run_id", "run_ts_utc", "comp_code", "season", "status", "details"}
      [] name = "stg_raw_teams" -> {"team_id", "team_name", "team_crest_url"}
      [] name = "stg_raw_matches" -> MatchSetCols \cup {"match_id"}
      [] name = "fct_team_match" ->
            {"team_id", "match_id", "match_date", "matchday", "is_home",
             "opponent_team_id", "goals_for", "goals_against", "result", "points"}
      [] name = "fct_standings_matchday" ->
            {"team_id", "team_name", "matchday", "last_match_date", "position",
             "played", "won", "drawn", "lost", "gf", "ga", "gd", "points"}
      [] name = "mart_league_table_current" ->
            {"team_id", "team_name", "matchday", "last_match_date", "position",
             "played", "won", "drawn", "lost", "gf", "ga", "gd", "points"}

\* The DuckDB file: whether it exists, the names of its tables and views, and the
\* rows of its tables.
Db == [exists |-> db_exists, catalog |-> catalog, raw_teams |-> raw_teams,
       raw_matches |-> raw_matches, ingest_runs |-> ingest_runs]

\* A statement: what it does (kind), the table it names, the columns it names, and
\* the column its "where col = ?" compares with the one parameter, if it has one.
LeagueTableSql ==
    [kind |-> "select", table |-> "mart_league_table_current", cols |-> {"position"}]
StagedTeamsSql ==
    [kind |-> "select", table |-> "stg_raw_teams",
     cols |-> {"team_id", "team_name", "team_crest_url"}]
RawTeamsSql ==
    [kind |-> "select", table |-> "raw_teams",
     cols |-> {"team_id", "name", "crest_url", "crest"}]
TeamMatchesSql ==
    [kind |-> "select", table |-> "fct_team_match",
     cols |-> {"match_id", "match_date", "matchday", "is_home", "opponent_team_id",
               "goals_for", "goals_against", "result", "points", "team_id"},
     where |-> "team_id"]
MatchDetailSql ==
    [kind |-> "select", table |-> "stg_raw_matches",
     cols |-> {"match_id", "utc_date", "status", "matchday", "home_team_name",
               "away_team_name", "home_score_full", "away_score_full",
               "home_score_half", "away_score_half", "winner", "last_updated_utc"},
     where |-> "match_id"]

\* The statements query_df is given: the app's own, and three it never sends.
Statements ==
    {LeagueTableSql, StagedTeamsSql, RawTeamsSql, TeamMatchesSql, MatchDetailSql,
     [kind |-> "select", table |-> "raw_matches", cols |-> {"match_id"}],
     [kind |-> "delete", table |-> "raw_teams", cols |-> {}],
     [kind |-> "malformed"]}

\* params is None
None == [none |-> TRUE]

\* params is the list of values
List(values) == [list |-> values]

ParamLists == {None, List(<<>>), List(<<1>>), List(<<10>>), List(<<1, 2>>)}

\* The statement's ? placeholders.
Placeholders(sql) == IF "where" \in DOMAIN sql THEN 1 ELSE 0

\* con.execute(sql, param_tuple) on a connection to the file db:
\* [exc |-> the exception raised or NoExc, rows |-> the result, db |-> the file
\* afterwards]
Execute(db, sql, param_tuple, read_only) ==
    LET Fails(type, text) == [exc |-> Exc(type, text), rows |-> {}, db |-> db]
    IN  IF sql.kind = "malformed"
        THEN Fails("ParserException", "Parser Error: syntax error")
        ELSE IF sql.table \notin db.catalog
        THEN Fails("CatalogException",
                   "Catalog Error: Table with name " \o sql.table \o " does not exist!")
        ELSE IF ~(sql.cols \subseteq Columns(sql.table))
        THEN Fails("BinderException", "Binder Error: Referenced column not found")
        ELSE IF sql.kind = "delete" /\ read_only
        THEN Fails("InvalidInputException",
                   "Cannot execute statement of type DELETE in read-only mode")
        ELSE IF Len(param_tuple) # Placeholders(sql)
        THEN Fails("InvalidInputException",
                   "Invalid Input Error: wrong number of prepared statement parameters")
        ELSE IF sql.kind = "delete"
        THEN IF sql.table \in RawTables
             THEN [exc |-> NoExc, rows |-> {}, db |-> [db EXCEPT ![sql.table] = {}]]
             ELSE Fails("BinderException", "Binder Error: Can only delete from base table")
        ELSE [exc |-> NoExc,
              rows |-> {r \in Relation(db, sql.table) :
                           "where" \in DOMAIN sql =>
                               /\ sql.where \in DOMAIN r
                               /\ r[sql.where] = param_tuple[1]},
              db |-> db]

\* duckdb.connect(path, read_only): the exception raised, or NoExc. A file that
\* another process has open for writing cannot be opened.
Connect(db, locked, read_only) ==
    IF ~db.exists /\ read_only
    THEN Exc("IOException", "IO Error: Cannot open database in read-only mode: file does not exist")
    ELSE IF locked
    THEN Exc("IOException", "IO Error: Could not set lock on file")
    ELSE NoExc

\* query_df without the try/except
QueryDfNoExcept(db, sql, params, locked) ==
    IF ~db.exists THEN [outcome |-> "returned", rows |-> {}, db |-> db]
    ELSE LET param_tuple == IF params = None \/ params.list = <<>> THEN <<>>
                            ELSE params.list
             opened == Connect(db, locked, TRUE)
             done == Execute(db, sql, param_tuple, TRUE)
             e == IF opened # NoExc THEN opened ELSE done.exc
         IN  IF e # NoExc THEN [outcome |-> "raised", rows |-> {}, db |-> db]
             ELSE [outcome |-> "returned", rows |-> done.rows, db |-> done.db]

\* query_df(sql, params, cache_seed), the file locked or not by a writer:
\* [outcome |-> "returned" or "raised", rows |-> the DataFrame's rows,
\*  db |-> the file afterwards]
QueryDf(db, sql, params, locked) ==
    IF ~db.exists THEN [outcome |-> "returned", rows |-> {}, db |-> db]
    ELSE LET param_tuple == IF params = None \/ params.list = <<>> THEN <<>>
                            ELSE params.list
             opened == Connect(db, locked, TRUE)
             done == Execute(db, sql, param_tuple, TRUE)
             e == IF opened # NoExc THEN opened ELSE done.exc
         IN  IF e # NoExc
             THEN IF e.type \in DuckdbErrors
                  THEN [outcome |-> "returned", rows |-> {}, db |-> db]
                  ELSE [outcome |-> "raised", rows |-> {}, db |-> db]
             ELSE [outcome |-> "returned", rows |-> done.rows, db |-> done.db]

\* ------------------------------------------------ the app and its refreshes

\* Successful refreshes of one session.
MaxRefreshes == 2

\* What the upstream holds while the app runs.
AppTeams == [teams |-> <<TeamA, TeamB>>]
AppMatches == [matches |-> <<MatchF, MatchT>>]

\* The DuckDB file when the app starts: absent; or written by earlier pipeline
\* runs, with the raw tables only or with the views built, over an upstream with
\* or without teams and matches.
AppInit ==
    /\ NotInvoked
    /\ SessionDefaults
    /\ ingest_runs = {}
    /\ \/ /\ db_exists = FALSE
          /\ catalog = {}
          /\ raw_teams = {}
          /\ raw_matches = {}
       \/ /\ db_exists = TRUE
          /\ catalog \in {RawTables, RawTables \cup Views}
          /\ \/ raw_teams = {} /\ raw_matches = {}
             \/ /\ raw_teams = UpsertTeams({}, AppTeams, 0).table
                /\ raw_matches =
                      UpsertMatches({}, DefaultCompCode, DefaultSeason, AppMatches, 0).table

\* What a pipeline run leaves in the file: the upstream's teams and matches
\* upserted when ingested, and the views built when built.
AfterPipeline(ingested, built) ==
    IF ingested
    THEN /\ db_exists' = TRUE
         /\ catalog' = catalog \cup RawTables \cup (IF built THEN Views ELSE {})
         /\ raw_teams' = UpsertTeams(raw_teams, AppTeams, clock).table
         /\ raw_matches' =
               UpsertMatches(raw_matches, DefaultCompCode, DefaultSeason,
                             AppMatches, clock).table
    ELSE UNCHANGED <<db_exists, catalog, raw_teams, raw_matches>>

\* A script run calls query_df(sql, params, cache_seed) while the DuckDB file is or
\* is not held by a pipeline run.
Query(sql, params, locked) ==
    /\ LET got == QueryDf(Db, sql, params, locked)
       IN  /\ query_result' = [sql |-> sql, params |-> params, locked |-> locked,
                               outcome |-> got.outcome, rows |-> got.rows]
           /\ db_exists' = got.db.exists
           /\ catalog' = got.db.catalog
           /\ raw_teams' = got.db.raw_teams
           /\ raw_matches' = got.db.raw_matches
           /\ ingest_runs' = got.db.ingest_runs
    /\ UNCHANGED <<ingestion, selected_team_id, refreshing, refresh_result,
                   last_refreshed_team_id, cache_buster, script>>

\* A pipeline run between two script runs.
Pipeline(built) ==
    /\ AfterPipeline(TRUE, built)
    /\ UNCHANGED <<ingestion, ingest_runs, sessions>>

QueryNext ==
    \/ \E sql \in Statements, params \in ParamLists, locked \in BOOLEAN :
          Query(sql, params, locked)
    \/ \E built \in BOOLEAN : Pipeline(built)

QuerySpec == AppInit /\ [][QueryNext]_vars

\* league_table, preloaded for the sidebar (line 102)
league_table == QueryDf(Db, LeagueTableSql, None, FALSE).rows

\* fetch_teams(): the staged teams, else the raw teams, else none
fetch_teams ==
    LET staged == QueryDf(Db, StagedTeamsSql, None, FALSE).rows
        raw == QueryDf(Db, RawTeamsSql, None, FALSE).rows
    IN  IF staged # {} THEN staged ELSE raw

\* The teams the sidebar offers: the league table's rows as buttons, or, without a
\* league table, the teams of fetch_teams() in a selectbox.
TeamChoices ==
    IF league_table = {} THEN {t.team_id : t \in fetch_teams}
    ELSE {r.team_id : r \in league_table}

\* The user picks team t in the sidebar of session s (lines 124-178).
SelectTeam(s, t) ==
    /\ script[s] = "idle"
    /\ t \in TeamChoices
    /\ selected_team_id' = [selected_team_id EXCEPT ![s] = t]
    /\ UNCHANGED <<ingestion, store, db_exists, catalog, refreshing, refresh_result,
                   last_refreshed_team_id, cache_buster, script, query_result>>

\* refresh_disabled (line 180)
refresh_disabled(s) == refreshing[s] \/ selected_team_id[s] = NoTeam

\* The user clicks "Refresh pipeline" in session s: the flag is set and
\* run_refresh is entered (lines 183-188).
ClickRefresh(s) ==
    /\ script[s] = "idle"
    /\ ~refresh_disabled(s)
    /\ cache_buster[s] < MaxRefreshes
    /\ refreshing' = [refreshing EXCEPT ![s] = TRUE]
    /\ script' = [script EXCEPT ![s] = "run_refresh"]
    /\ UNCHANGED <<ingestion, store, db_exists, catalog, selected_team_id,
                   refresh_result, last_refreshed_team_id, cache_buster, query_result>>

\* What run_refresh returns.
RunRefreshResults ==
    {[ingest_ok |-> TRUE, dbt_ok |-> TRUE, ingest_stdout |-> "ok", dbt_stdout |-> "ok"],
     [ingest_ok |-> TRUE, dbt_ok |-> FALSE, ingest_stdout |-> "ok", dbt_stdout |-> "error"],
     [ingest_ok |-> FALSE, dbt_ok |-> FALSE, ingest_stdout |-> "error", dbt_stdout |-> ""]}

\* What run_refresh raises.
RunRefreshErrors == {Exc("OSError", "[Errno 2] No such file or directory: 'dbt'")}

\* The handler of the button after run_refresh, with result as the try statement
\* left it (lines 191-204): the result is kept, the flag reset, and after a full
\* success the refresh is recorded and the cache invalidated.
AfterRunRefresh(s, result) ==
    /\ refresh_result' = [refresh_result EXCEPT ![s] = result]
    /\ refreshing' = [refreshing EXCEPT ![s] = FALSE]
    /\ IF result.ingest_ok /\ result.dbt_ok
       THEN /\ last_refreshed_team_id' =
                  [last_refreshed_team_id EXCEPT ![s] = selected_team_id[s]]
            /\ cache_buster' = [cache_buster EXCEPT ![s] = @ + 1]
       ELSE UNCHANGED <<last_refreshed_team_id, cache_buster>>
    /\ script' = [script EXCEPT ![s] = "idle"]

\* run_refresh returns result in session s: the pipeline has ingested the upstream
\* when ingest_ok, and built the views when dbt_ok.
RunRefreshReturns(s, result) ==
    /\ script[s] = "run_refresh"
    /\ AfterRunRefresh(s, result)
    /\ AfterPipeline(result.ingest_ok, result.dbt_ok)
    /\ UNCHANGED <<ingestion, ingest_runs, selected_team_id, query_result>>

\* run_refresh raises e in session s: except Exception makes it a failed result.
RunRefreshRaises(s, e) ==
    /\ script[s] = "run_refresh"
    /\ AfterRunRefresh(s, [ingest_ok |-> FALSE, dbt_ok |-> FALSE,
                           ingest_stdout |-> e.text, dbt_stdout |-> ""])
    /\ UNCHANGED <<ingestion, store, db_exists, catalog, selected_team_id, query_result>>

AppNext ==
    \/ \E s \in Sessions, t \in 1..2 : SelectTeam(s, t)
    \/ \E s \in Sessions : ClickRefresh(s)
    \/ \E s \in Sessions, result \in RunRefreshResults : RunRefreshReturns(s, result)
    \/ \E s \in Sessions, e \in RunRefreshErrors : RunRefreshRaises(s, e)

AppSpec == AppInit /\ [][AppNext]_vars

\* ------------------------------------------------------ properties of query_df

\* The call whose result is r met a storage error in the file as it is: no file, a
\* file held by a writer, a statement that does not parse, a missing table or
\* view, a missing column, a write, or parameters that do not match the ?s.
StorageError(r) ==
    \/ ~db_exists
    \/ r.locked
    \/ r.sql.kind = "malformed"
    \/ r.sql.table \notin catalog
    \/ ~(r.sql.cols \subseteq Columns(r.sql.table))
    \/ r.sql.kind = "delete"
    \/ (IF r.params = None THEN 0 ELSE Len(r.params.list)) # Placeholders(r.sql)

\* C11: every call of query_df returns, whatever the statement and the parameter
\* list; it returns no rows when the file is missing, a table is missing, or the
\* statement is malformed or fails in DuckDB in another way; and the call leaves
\* the file and its tables as they were.
C11_QueryDfNeverRaises ==
    [][query_result' # query_result =>
          /\ query_result'.outcome = "returned"
          /\ StorageError(query_result') => query_result'.rows = {}
          /\ UNCHANGED <<db_exists, catalog, raw_teams, raw_matches, ingest_runs>>]_vars

\* The league table was asked of a file with teams in raw_teams and without the
\* views, and came back empty.
C11_Witness ==
    /\ query_result.outcome = "returned"
    /\ query_result.sql = LeagueTableSql
    /\ query_result.rows = {}
    /\ db_exists
    /\ raw_teams # {}
    /\ "mart_league_table_current" \notin catalog

\* -------------------------------------------------- properties of the refresh

\* The sessions whose refresh is in flight.
InFlight == {s \in Sessions : script[s] = "run_refresh"}

\* C17: a refresh starts only in a session whose refreshing flag is false and
\* which has a team selected; the flag is true while run_refresh runs and false
\* again once the attempt is over, however it ended; and at no time is more than
\* one refresh, hence more than one ingestion, in flight.
C17_FlagSerializesIngestion ==
    /\ [][\A s \in Sessions :
             script[s] = "idle" /\ script'[s] = "run_refresh" =>
                 ~refreshing[s] /\ selected_team_id[s] # NoTeam]_vars
    /\ [](\A s \in Sessions : script[s] = "run_refresh" => refreshing[s])
    /\ [](\A s \in Sessions : script[s] = "idle" => ~refreshing[s])
    /\ [](Cardinality(InFlight) <= 1)

\* ------------------------------------------------- properties of the views

\* The TeamMatch rows derived from match m.
RowsOf(m) == {r \in fct_team_match : r.match_id = m.match_id}

\* C12: every match whose status is complete and whose full-time scores are both
\* not NULL has exactly two TeamMatch rows, the home side's and the away side's,
\* with goals_for/goals_against swapped, results complementary (home W, away L;
\* home L, away W; D, D) and points 3/1/0; every other match has no TeamMatch row,
\* and every TeamMatch row comes from a match.
C12_TwoMirroredRows ==
    /\ \A m \in raw_matches :
          IF /\ m.status \in CompleteStatuses
             /\ "home_score_full" \in DOMAIN m
             /\ "away_score_full" \in DOMAIN m
          THEN /\ Cardinality(RowsOf(m)) = 2
               /\ \E h, a \in RowsOf(m) :
                     /\ h.is_home /\ ~a.is_home
                     /\ h.team_id = m.home_team_id /\ a.team_id = m.away_team_id
                     /\ h.opponent_team_id = a.team_id /\ a.opponent_team_id = h.team_id
                     /\ h.goals_for = m.home_score_full
                     /\ h.goals_against = m.away_score_full
                     /\ a.goals_for = h.goals_against /\ a.goals_against = h.goals_for
                     /\ h.result = "W" <=> m.home_score_full > m.away_score_full
                     /\ h.result = "L" <=> m.home_score_full < m.away_score_full
                     /\ h.result = "D" <=> m.home_score_full = m.away_score_full
                     /\ <<h.result, a.result>> \in {<<"W", "L">>, <<"L", "W">>, <<"D", "D">>}
                     /\ \A r \in {h, a} :
                           r.points = IF r.result = "W" THEN 3
                                      ELSE IF r.result = "D" THEN 1 ELSE 0
          ELSE RowsOf(m) = {}
    /\ \A r \in fct_team_match : \E m \in raw_matches : m.match_id = r.match_id

\* One match is finished with a home win, another is finished as a draw, a third is
\* in play with a score and has no row, the fourth is not played.
C12_Witness ==
    /\ \E m \in raw_matches :
          m.status = "FINISHED" /\ m.home_score_full > m.away_score_full
    /\ \E m \in raw_matches :
          m.status = "FINISHED" /\ m.home_score_full = m.away_score_full
    /\ \E m \in raw_matches :
          m.status = "IN_PLAY" /\ "home_score_full" \in DOMAIN m /\ RowsOf(m) = {}
    /\ \E m \in raw_matches : m.status = "SCHEDULED"
    /\ Cardinality(fct_team_match) = 4

\* The StandingsSnapshot rows recorded for matchday d.
SnapshotOf(d) == {x \in fct_standings_matchday : x.matchday = d}

Matchdays == {x.matchday : x \in fct_standings_matchday}

\* The teams with at least one recorded result by matchday d.
TeamsBy(d) == {r.team_id : r \in {q \in fct_team_match : q.matchday <= d}}

\* The ordering key of a snapshot row.
OrderingKey(x) == <<x.points, x.gd, x.gf, x.team_name>>

\* Row x comes before row y on (points desc, goal_difference desc, goals_for desc,
\* team_name asc).
KeyBefore(x, y) ==
    /\ x.points >= y.points
    /\ x.points = y.points => x.gd >= y.gd
    /\ (x.points = y.points /\ x.gd = y.gd) => x.gf >= y.gf
    /\ (x.points = y.points /\ x.gd = y.gd /\ x.gf = y.gf) =>
          StrLess(x.team_name, y.team_name)

\* The positions of the rows recorded for matchday d are 1..n, none twice, in the
\* order of the ordering key, and no two of the rows have the same key.
RankedOneTo(d, n) ==
    /\ {x.position : x \in SnapshotOf(d)} = 1..n
    /\ Cardinality(SnapshotOf(d)) = n
    /\ \A x, y \in SnapshotOf(d) :
          x # y => /\ OrderingKey(x) # OrderingKey(y)
                   /\ x.position # y.position
                   /\ x.position < y.position <=> KeyBefore(x, y)

FinalState(team_id) ==
    LET rows == {r \in fct_team_match : r.team_id = team_id}
    IN  [played |-> Cardinality(rows),
         won |-> Cardinality({r \in rows : r.result = "W"}),
         drawn |-> Cardinality({r \in rows : r.result = "D"}),
         lost |-> Cardinality({r \in rows : r.result = "L"}),
         gf |-> SumOf(rows, "goals_for"), ga |-> SumOf(rows, "goals_against"),
         points |-> SumOf(rows, "points")]

Totals(x) ==
    [c \in {"played", "won", "drawn", "lost", "gf", "ga", "points"} |-> x[c]]

\* The teams with a recorded result.
TeamsPlayed == {r.team_id : r \in fct_team_match}

\* C14: for every team, the current league table's row, the StandingsSnapshot row
\* with the maximum matchday, is the row produced after the team's last match in
\* match_date order: its played/won/drawn/lost/goals/points totals cover all of the
\* team's TeamMatch rows, and the overview's points and goal difference, read from
\* the last row of pos_history, are those of that final state; also when matches
\* are played out of matchday order.
C14_CurrentIsFinalState ==
    \A t \in TeamsPlayed :
        /\ \E r \in mart_league_table_current : r.team_id = t
        /\ \A r \in mart_league_table_current :
              r.team_id = t =>
                  /\ Totals(r) = FinalState(t)
                  /\ \A q \in fct_team_match :
                        q.team_id = t => q.match_date <= r.last_match_date
        /\ Metrics(t).Points = FinalState(t).points
        /\ Metrics(t).GD = FinalState(t).gf - FinalState(t).ga

\* The TeamMatch rows of x's team up to and including the triggering match of
\* snapshot row x.
Covered(x) ==
    {q \in fct_team_match : q.team_id = x.team_id /\ q.match_date <= x.last_match_date}

\* C15: every StandingsSnapshot row has played = won + drawn + lost,
\* points = 3*won + drawn and goal_difference = goals_for - goals_against, its
\* totals being the sums over the team's TeamMatch rows up to and including the
\* triggering match, which is a match of the row's team and matchday.
C15_SnapshotIdentities ==
    \A x \in fct_standings_matchday :
        /\ x.played = x.won + x.drawn + x.lost
        /\ x.points = 3 * x.won + x.drawn
        /\ x.gd = x.gf - x.ga
        /\ \E q \in Covered(x) :
              q.matchday = x.matchday /\ q.match_date = x.last_match_date
        /\ x.played = Cardinality(Covered(x))
        /\ x.won = Cardinality({q \in Covered(x) : q.goals_for > q.goals_against})
        /\ x.drawn = Cardinality({q \in Covered(x) : q.goals_for = q.goals_against})
        /\ x.lost = Cardinality({q \in Covered(x) : q.goals_for < q.goals_against})
        /\ x.gf = SumOf(Covered(x), "goals_for")
        /\ x.ga = SumOf(Covered(x), "goals_against")
        /\ x.points = SumOf(Covered(x), "points")

\* Millwall has won one, drawn one and lost one of its three matches: four points,
\* goal difference 0, on the row of its last match; its row of matchday 3 covers
\* the first two of them.
C15_Witness ==
    /\ \E x \in fct_standings_matchday :
          /\ x.team_id = 2 /\ x.matchday = 2
          /\ x.played = 3 /\ x.won = 1 /\ x.drawn = 1 /\ x.lost = 1
          /\ x.points = 4 /\ x.gf = 1 /\ x.ga = 1 /\ x.gd = 0
    /\ \E x \in fct_standings_matchday :
          x.team_id = 2 /\ x.matchday = 3 /\ x.played = 2

\* ------------------------------------------------------ run_id, revisited

\* C16: every invocation gets a run_id no earlier invocation had, however close in
\* time the two are: the STARTED row it inserts is a new row, and no step changes
\* the row of a run that has ended in SUCCESS or FAILED (a later failing invocation
\* never turns an earlier run's SUCCESS into FAILED).
C16_RunIdUniquePerInvocation ==
    /\ [](pc = "insert_run" => run_id \notin Keys(ingest_runs, "run_id"))
    /\ [][\A r \in ingest_runs :
             r.status \in {"SUCCESS", "FAILED"} => r \in ingest_runs']_vars

====
